---- MODULE Spec2Model ----
(***************************************************************************)
(* Model of the routing engine of Raahi (src/city/route_finder.py):        *)
(* RouteFinder.load_data/_build_graph (graph construction),                *)
(* RouteFinder.find_routes (Dijkstra search with four edge-cost policies), *)
(* RouteFinder._reconstruct_journey (journey and its metrics) and          *)
(* RouteFinder.find_multiple_routes (one search per criterion).            *)
(*                                                                         *)
(* Numbers.  Durations are Python ints (minutes).  Monetary amounts are    *)
(* Python floats (fare / len(stops)); they are modelled exactly as         *)
(* fixed-point integers counting units of 1/CostScale, CostScale being a   *)
(* common multiple of every route length in the input records.  An         *)
(* accumulated search cost mixes both and is kept in the same fixed-point  *)
(* unit.  float('inf') is the integer Inf, larger than any reachable cost. *)
(***************************************************************************)
EXTENDS Integers, Sequences, FiniteSets

\* ------------------------------------------------------------------ bounds
\* Stop tables hold the first MaxStops-1 or the first MaxStops rows of AllStops.
MaxStops == 3
\* load_data is called at most MaxLoads times on the RouteFinder.
MaxLoads == 2
\* A walking table holds at most MaxWalks rows.
MaxWalks == 2

\* ------------------------------------------------------------ input records
\* Rows of stops.csv (the columns the engine reads: stop_id, mode, x, y).
AllStops ==
    << [stop_id |-> "A", mode |-> "bus",   x |-> 0,  y |-> 0],
       [stop_id |-> "B", mode |-> "bus",   x |-> 1,  y |-> 0],
       [stop_id |-> "C", mode |-> "metro", x |-> 1,  y |-> 1],
       [stop_id |-> "D", mode |-> "train", x |-> 13, y |-> 1],
       [stop_id |-> "E", mode |-> "bus",   x |-> 13, y |-> 6] >>

\* Rows of routes.csv; stops is the '|'-separated column after split('|').  Each
\* fare is a multiple of its route's length, so that the float fare / len(stops)
\* and every sum of such amounts is computed without rounding.
AllRoutes ==
    << [route_id |-> "R1", mode |-> "bus",   stops |-> <<"A", "B">>,      fare |-> 10],
       [route_id |-> "R2", mode |-> "metro", stops |-> <<"B", "C">>,      fare |-> 6],
       [route_id |-> "R3", mode |-> "bus",   stops |-> <<"A", "C", "D">>, fare |-> 12] >>

\* Rows of walking.csv.
AllWalks ==
    << [from_stop |-> "B", to_stop |-> "C", walking_time |-> 4, distance_meters |-> 240],
       [from_stop |-> "A", to_stop |-> "C", walking_time |-> 9, distance_meters |-> 500],
       [from_stop |-> "D", to_stop |-> "A", walking_time |-> 3, distance_meters |-> 150] >>

Min(a, b) == IF a < b THEN a ELSE b

Max(a, b) == IF a > b THEN a ELSE b

\* The order-preserving selections of at most n rows of a table.
RECURSIVE SubTables(_, _)
SubTables(table, n) ==
    IF table = <<>> \/ n = 0 THEN { <<>> }
    ELSE LET rest == SubSeq(table, 2, Len(table))
         IN  SubTables(rest, n) \cup { <<table[1]>> \o t : t \in SubTables(rest, n - 1) }

StopTables == { SubSeq(AllStops, 1, n) : n \in { Min(Len(AllStops), MaxStops - 1), Min(Len(AllStops), MaxStops) } }

RouteTables == SubTables(AllRoutes, Len(AllRoutes))

WalkTables == SubTables(AllWalks, MaxWalks)

\* Stop identifiers a caller may pass to find_routes: those of the largest stop
\* table and one more, which no stop table ever holds.
QueryIds == { AllStops[i].stop_id : i \in 1..Min(Len(AllStops), MaxStops + 1) }

Criteria == { "time", "cost", "transfers", "balanced" }

\* --------------------------------------------------------------- arithmetic
RECURSIVE ProductOfLens(_, _)
ProductOfLens(routes, i) ==
    IF i > Len(routes) THEN 1 ELSE Len(routes[i].stops) * ProductOfLens(routes, i + 1)

\* One currency unit is CostScale fixed-point units; every route length divides it.
CostScale == ProductOfLens(AllRoutes, 1)

Inf == 1000000000

\* --------------------------------------------------------------- the graph
\* self.graph = {} (a dict with no key).
EmptyGraph == [k \in {} |-> <<>>]

StopIdsOf(sdf) == { sdf[i].stop_id : i \in 1..Len(sdf) }

\* int(math.sqrt(d2) * 100 / speed): the largest k with (k * speed)^2 <= d2 * 100^2.
FloorDistOverSpeed(d2, speed) ==
    CHOOSE k \in 0..d2 : /\ (k * speed) * (k * speed) <= d2 * 10000
                         /\ ((k + 1) * speed) * ((k + 1) * speed) > d2 * 10000

\* speeds.get(mode, 300)
SpeedOf(mode) ==
    CASE mode = "bus"   -> 300
      [] mode = "metro" -> 600
      [] mode = "train" -> 800
      [] OTHER          -> 300

\* Mutant of EstimateTravelTime: the minimum of 2 minutes is left out.
EstimateTravelTimeNoMinimum(sdf, mode, from_stop, to_stop) ==
    LET from_rows == { i \in 1..Len(sdf) : sdf[i].stop_id = from_stop }
        to_rows   == { i \in 1..Len(sdf) : sdf[i].stop_id = to_stop }
    IN  IF from_rows = {} \/ to_rows = {} THEN 10
        ELSE LET f  == sdf[CHOOSE i \in from_rows : \A j \in from_rows : i <= j]
                 t  == sdf[CHOOSE i \in to_rows : \A j \in to_rows : i <= j]
                 d2 == (t.x - f.x) * (t.x - f.x) + (t.y - f.y) * (t.y - f.y)
             IN  FloorDistOverSpeed(d2, SpeedOf(mode))

\* _estimate_travel_time: the first stops_df row of each stop id gives its position.
EstimateTravelTime(sdf, mode, from_stop, to_stop) ==
    LET from_rows == { i \in 1..Len(sdf) : sdf[i].stop_id = from_stop }
        to_rows   == { i \in 1..Len(sdf) : sdf[i].stop_id = to_stop }
    IN  IF from_rows = {} \/ to_rows = {} THEN 10
        ELSE LET f  == sdf[CHOOSE i \in from_rows : \A j \in from_rows : i <= j]
                 t  == sdf[CHOOSE i \in to_rows : \A j \in to_rows : i <= j]
                 d2 == (t.x - f.x) * (t.x - f.x) + (t.y - f.y) * (t.y - f.y)
             IN  Max(2, FloorDistOverSpeed(d2, SpeedOf(mode)))

\* Mutant of InitAdjacency: the loop stops one row short of the end of stops_df.
InitAdjacencySkipLast(g, sdf) ==
    LET ids == { sdf[i].stop_id : i \in 1..(Len(sdf) - 1) }
    IN  [k \in (DOMAIN g) \cup ids |-> IF k \in ids THEN <<>> ELSE g[k]]

\* The first loop of _build_graph: graph[stop_id] = [] for every stops_df row; a key
\* the dict already holds and stops_df does not name keeps its list.
InitAdjacency(g, sdf) ==
    [k \in (DOMAIN g) \cup StopIdsOf(sdf) |-> IF k \in StopIdsOf(sdf) THEN <<>> ELSE g[k]]

\* Mutant of RouteConnection: each hop is charged the full route fare.
RouteConnectionFullFare(sdf, route, i) ==
    [to       |-> route.stops[i + 1],
     mode     |-> route.mode,
     route_id |-> route.route_id,
     cost     |-> route.fare * CostScale,
     time     |-> EstimateTravelTime(sdf, route.mode, route.stops[i], route.stops[i + 1]),
     type     |-> "route"]

\* The connection dict of one route hop.
RouteConnection(sdf, route, i) ==
    [to       |-> route.stops[i + 1],
     mode     |-> route.mode,
     route_id |-> route.route_id,
     cost     |-> (route.fare * CostScale) \div Len(route.stops),
     time     |-> EstimateTravelTime(sdf, route.mode, route.stops[i], route.stops[i + 1]),
     type     |-> "route"]

\* The connection dict of one direction of a walking link.
WalkConnection(walk, end) ==
    [to       |-> end,
     mode     |-> "walk",
     route_id |-> "WALK",
     cost     |-> 0,
     time     |-> walk.walking_time,
     distance |-> walk.distance_meters,
     type     |-> "walk"]

\* The hops of all routes in the order the nested loops visit them.
RECURSIVE RouteHops(_, _, _)
RouteHops(sdf, rdf, r) ==
    IF r > Len(rdf) THEN <<>>
    ELSE [i \in 1..(Len(rdf[r].stops) - 1) |->
             [from_stop |-> rdf[r].stops[i], conn |-> RouteConnection(sdf, rdf[r], i)]]
         \o RouteHops(sdf, rdf, r + 1)

\* self.graph[from_stop].append(connection) for each hop in turn; a from_stop
\* that is no key of the dict raises KeyError and ends the build there.
RECURSIVE AddRouteHops(_, _, _)
AddRouteHops(g, hops, i) ==
    IF i > Len(hops) THEN [graph |-> g, error |-> "none"]
    ELSE IF hops[i].from_stop \notin DOMAIN g THEN [graph |-> g, error |-> "KeyError"]
    ELSE AddRouteHops([g EXCEPT ![hops[i].from_stop] = Append(@, hops[i].conn)], hops, i + 1)

\* The two directed connections of each walking link, in loop order.
RECURSIVE WalkHops(_, _)
WalkHops(wdf, w) ==
    IF w > Len(wdf) THEN <<>>
    ELSE << [from_stop |-> wdf[w].from_stop, conn |-> WalkConnection(wdf[w], wdf[w].to_stop)],
            [from_stop |-> wdf[w].to_stop,   conn |-> WalkConnection(wdf[w], wdf[w].from_stop)] >>
         \o WalkHops(wdf, w + 1)

\* if start in self.graph: self.graph[start].append(connection)
RECURSIVE AddWalkHops(_, _, _)
AddWalkHops(g, hops, i) ==
    IF i > Len(hops) THEN g
    ELSE IF hops[i].from_stop \in DOMAIN g
         THEN AddWalkHops([g EXCEPT ![hops[i].from_stop] = Append(@, hops[i].conn)], hops, i + 1)
         ELSE AddWalkHops(g, hops, i + 1)

\* _build_graph run on a RouteFinder whose dict is g: the dict it leaves and
\* whether it raised.
BuildGraph(g, sdf, rdf, wdf) ==
    LET routed == AddRouteHops(InitAdjacency(g, sdf), RouteHops(sdf, rdf, 1), 1)
    IN  IF routed.error # "none" THEN routed
        ELSE [graph |-> AddWalkHops(routed.graph, WalkHops(wdf, 1), 1), error |-> "none"]

\* ----------------------------------------------------------- the search
\* Python's None and a present value x are the sequences <<>> and <<x>>.
None == <<>>

Some(x) == <<x>>

\* Python orders the stop-id strings of the records as AllStops lists them.
StopRank(id) == CHOOSE i \in 1..Len(AllStops) : AllStops[i].stop_id = id

\* (cost, stop) tuple comparison, as heapq compares queue entries.
EntryLess(a, b) == a[1] < b[1] \/ (a[1] = b[1] /\ StopRank(a[2]) < StopRank(b[2]))

\* The queue is kept as the sequence of its entries in the order heappop
\* returns them: heapq.heappush puts the entry at its place in that order.
HeapPush(pq, entry) ==
    LET NotAfter(x) == ~EntryLess(entry, x)
        After(x)    == EntryLess(entry, x)
    IN  SelectSeq(pq, NotAfter) \o <<entry>> \o SelectSeq(pq, After)

\* Mutant of EdgeCost: the 'time' criterion weighs an edge by its monetary cost.
EdgeCostTimeAsCost(optimize, connections, current_stop, connection) ==
    CASE optimize = "time" -> connection.cost
      [] optimize = "cost" -> connection.cost
      [] optimize = "transfers" ->
            LET current_conn == IF current_stop \in DOMAIN connections
                                THEN connections[current_stop] ELSE None
            IN  IF current_conn # None /\ current_conn[1].mode # connection.mode
                THEN (connection.time + 30) * CostScale
                ELSE connection.time * CostScale
      [] OTHER -> connection.time * CostScale + connection.cost * 2

\* Mutant of EdgeCost: the 'transfers' criterion adds no penalty.
EdgeCostNoPenalty(optimize, connections, current_stop, connection) ==
    CASE optimize = "time" -> connection.time * CostScale
      [] optimize = "cost" -> connection.cost
      [] optimize = "transfers" -> connection.time * CostScale
      [] OTHER -> connection.time * CostScale + connection.cost * 2

\* The edge weight of a connection leaving current_stop, in fixed-point units.
EdgeCost(optimize, connections, current_stop, connection) ==
    CASE optimize = "time" -> connection.time * CostScale
      [] optimize = "cost" -> connection.cost
      [] optimize = "transfers" ->
            LET current_conn == IF current_stop \in DOMAIN connections
                                THEN connections[current_stop] ELSE None
            IN  IF current_conn # None /\ current_conn[1].mode # connection.mode
                THEN (connection.time + 30) * CostScale
                ELSE connection.time * CostScale
      [] OTHER -> connection.time * CostScale + connection.cost * 2

\* The locals of a find_routes call that is not running.
IdleCall ==
    [pc |-> "idle", origin |-> "", destination |-> "", optimize |-> "",
     distances |-> EmptyGraph, previous |-> EmptyGraph, connections |-> EmptyGraph,
     pq |-> <<>>, visited |-> {}, outcome |-> "none", journeys |-> <<>>]

\* find_routes up to the while loop.
StartCall(g, origin, destination, optimize) ==
    [pc |-> "search", origin |-> origin, destination |-> destination, optimize |-> optimize,
     distances   |-> [k \in (DOMAIN g) \cup {origin} |-> IF k = origin THEN 0 ELSE Inf],
     previous    |-> [k \in DOMAIN g |-> None],
     connections |-> [k \in DOMAIN g |-> None],
     pq |-> << <<0, origin>> >>, visited |-> {}, outcome |-> "pending", journeys |-> <<>>]

\* The for loop over self.graph[current_stop], from connection i on.
\* distances[neighbor] on a neighbor that is no key raises KeyError.
RECURSIVE Relax(_, _, _, _, _)
Relax(c, conns, i, current_cost, current_stop) ==
    IF i > Len(conns) THEN c
    ELSE LET connection == conns[i]
             neighbor   == connection.to
             new_cost   == current_cost
                           + EdgeCost(c.optimize, c.connections, current_stop, connection)
         IN  IF neighbor \in c.visited THEN Relax(c, conns, i + 1, current_cost, current_stop)
             ELSE IF neighbor \notin DOMAIN c.distances
                  THEN [c EXCEPT !.pc = "done", !.outcome = "KeyError"]
             ELSE IF new_cost < c.distances[neighbor]
                  THEN Relax([c EXCEPT !.distances[neighbor] = new_cost,
                                       !.previous = [k \in (DOMAIN @) \cup {neighbor} |->
                                                       IF k = neighbor THEN Some(current_stop) ELSE @[k]],
                                       !.connections = [k \in (DOMAIN @) \cup {neighbor} |->
                                                       IF k = neighbor THEN Some(connection) ELSE @[k]],
                                       !.pq = HeapPush(@, <<new_cost, neighbor>>)],
                             conns, i + 1, current_cost, current_stop)
             ELSE Relax(c, conns, i + 1, current_cost, current_stop)

\* Mutant of SearchStep: the break at the destination is left out.
SearchStepNoBreak(g, c) ==
    LET current_cost == c.pq[1][1]
        current_stop == c.pq[1][2]
        popped       == [c EXCEPT !.pq = Tail(@)]
        settled      == [popped EXCEPT !.visited = @ \cup {current_stop}]
        LoopTest(x)  == IF x.pc = "search" /\ x.pq = <<>> THEN [x EXCEPT !.pc = "finish"] ELSE x
    IN  IF current_stop \in c.visited THEN LoopTest(popped)
        ELSE IF current_stop \notin DOMAIN g
             THEN [settled EXCEPT !.pc = "done", !.outcome = "KeyError"]
        ELSE LoopTest(Relax(settled, g[current_stop], 1, current_cost, current_stop))

\* One iteration of the while loop, with the loop test that follows it.
\* self.graph[current_stop] on a stop that is no key raises KeyError.
SearchStep(g, c) ==
    LET current_cost == c.pq[1][1]
        current_stop == c.pq[1][2]
        popped       == [c EXCEPT !.pq = Tail(@)]
        settled      == [popped EXCEPT !.visited = @ \cup {current_stop}]
        LoopTest(x)  == IF x.pc = "search" /\ x.pq = <<>> THEN [x EXCEPT !.pc = "finish"] ELSE x
    IN  IF current_stop \in c.visited THEN LoopTest(popped)
        ELSE IF current_stop = c.destination THEN [settled EXCEPT !.pc = "finish"]
        ELSE IF current_stop \notin DOMAIN g
             THEN [settled EXCEPT !.pc = "done", !.outcome = "KeyError"]
        ELSE LoopTest(Relax(settled, g[current_stop], 1, current_cost, current_stop))

\* ------------------------------------------------------ the reconstruction
\* sum(...) over a list of numbers, from index i on.
RECURSIVE SumFrom(_, _)
SumFrom(nums, i) == IF i > Len(nums) THEN 0 ELSE nums[i] + SumFrom(nums, i + 1)

\* Mutant of Reverse: path.reverse() is left out.
ReverseForgotten(seq) == seq

Reverse(seq) == [i \in 1..Len(seq) |-> seq[Len(seq) + 1 - i]]

PathSegment(prev, current, connection) ==
    [from_stop |-> prev, to_stop |-> current, mode |-> connection.mode,
     route_id |-> connection.route_id, departure_time |-> "--:--",
     arrival_time |-> "--:--", cost |-> connection.cost, duration |-> connection.time]

\* The journey metrics computed from the reversed path.
JourneyOf(path) ==
    LET walks == SelectSeq(path, LAMBDA s : s.mode = "walk")
    IN  [segments         |-> path,
         total_cost       |-> SumFrom([i \in 1..Len(path) |-> path[i].cost], 1),
         total_time       |-> SumFrom([i \in 1..Len(path) |-> path[i].duration], 1),
         transfers        |-> Cardinality({ path[i].route_id :
                                  i \in { j \in 1..Len(path) : path[j].mode # "walk" } }) - 1,
         walking_distance |-> SumFrom([i \in 1..Len(walks) |-> walks[i].duration * 60], 1)]

\* The backward walk of _reconstruct_journey from current, path holding the
\* segments appended so far: None when a predecessor is missing, else the journey.
RECURSIVE ReconstructFrom(_, _, _, _, _)
ReconstructFrom(origin, current, previous, connections, path) ==
    IF current = origin THEN Some(JourneyOf(Reverse(path)))
    ELSE LET prev == previous[current]
         IN  IF prev = None THEN None
             ELSE ReconstructFrom(origin, prev[1], previous, connections,
                      IF connections[current] # None
                      THEN Append(path, PathSegment(prev[1], current, connections[current][1]))
                      ELSE path)

ReconstructJourney(origin, destination, previous, connections) ==
    ReconstructFrom(origin, destination, previous, connections, <<>>)

\* find_routes after the while loop.  distances[destination] on a destination
\* that is no key raises KeyError.
FinishCall(c) ==
    IF c.destination \notin DOMAIN c.distances
    THEN [c EXCEPT !.pc = "done", !.outcome = "KeyError"]
    ELSE IF c.distances[c.destination] = Inf
    THEN [c EXCEPT !.pc = "done", !.outcome = "returned", !.journeys = <<>>]
    ELSE LET journey == ReconstructJourney(c.origin, c.destination, c.previous, c.connections)
         IN  [c EXCEPT !.pc = "done", !.outcome = "returned",
                       !.journeys = IF journey # None THEN <<journey[1]>> ELSE <<>>]

\* find_routes run from a point of its while loop to its end, nothing else
\* running in between.
RECURSIVE RunCall(_, _)
RunCall(g, c) ==
    IF c.pc = "search" THEN RunCall(g, SearchStep(g, c))
    ELSE IF c.pc = "finish" THEN FinishCall(c)
    ELSE c

\* --------------------------------------------------------- the state machine
\* A RouteFinder and the find_routes calls made on it.
Calls == { "call1", "call2" }

VARIABLES
    stops_df,      \* self.stops_df: the rows read from stops.csv
    routes_df,     \* self.routes_df
    walking_df,    \* self.walking_df
    loads,         \* how many times load_data has run (the frames are None before)
    graph,         \* self.graph: stop id -> list of connection dicts
    build_error,   \* how the last _build_graph run ended: "none" or "KeyError"
    rebuilt,       \* whether _build_graph has run again since the frames were read
    calls,         \* the locals of each find_routes call
    multi          \* the locals of the find_multiple_routes call

vars == << stops_df, routes_df, walking_df, loads, graph, build_error, rebuilt, calls, multi >>

\* for optimize in ['time', 'cost', 'transfers']
MultiCriteria == << "time", "cost", "transfers" >>

\* The find_routes activation find_multiple_routes makes its calls in.
NestedCall == "call1"

\* routes = {}
EmptyRoutes == [k \in {} |-> <<>>]

\* The locals of a find_multiple_routes call that is not running.
IdleMulti ==
    [pc |-> "idle", origin |-> "", destination |-> "", index |-> 0,
     routes |-> EmptyRoutes, outcome |-> "none"]

AllIdle == multi.pc = "idle" /\ \A q \in Calls : calls[q].pc = "idle"

\* RouteFinder()
Init ==
    /\ stops_df = <<>>
    /\ routes_df = <<>>
    /\ walking_df = <<>>
    /\ loads = 0
    /\ graph = EmptyGraph
    /\ build_error = "none"
    /\ rebuilt = FALSE
    /\ calls = [q \in Calls |-> IdleCall]
    /\ multi = IdleMulti

\* load_data: read the three tables, then _build_graph.
LoadData(sdf, rdf, wdf) ==
    /\ AllIdle
    /\ loads < MaxLoads
    /\ stops_df' = sdf
    /\ routes_df' = rdf
    /\ walking_df' = wdf
    /\ loads' = loads + 1
    /\ LET built == BuildGraph(graph, sdf, rdf, wdf)
       IN  graph' = built.graph /\ build_error' = built.error
    /\ rebuilt' = FALSE
    /\ UNCHANGED << calls, multi >>

\* _build_graph called again on the same RouteFinder, the frames unchanged.
BuildGraphAgain ==
    /\ AllIdle
    /\ loads > 0
    /\ ~rebuilt
    /\ LET built == BuildGraph(graph, stops_df, routes_df, walking_df)
       IN  graph' = built.graph /\ build_error' = built.error
    /\ rebuilt' = TRUE
    /\ UNCHANGED << stops_df, routes_df, walking_df, loads, calls, multi >>

\* find_routes(origin, destination, optimize) is entered.
FindRoutes(q, origin, destination, optimize) ==
    /\ multi.pc = "idle"
    /\ calls[q].pc = "idle"
    /\ calls' = [calls EXCEPT ![q] = StartCall(graph, origin, destination, optimize)]
    /\ UNCHANGED << stops_df, routes_df, walking_df, loads, graph, build_error, rebuilt, multi >>

\* Mutant of Search: the visited set is one set shared by the calls in progress.
SearchSharedVisited(q) ==
    /\ calls[q].pc = "search"
    /\ calls' = [calls EXCEPT ![q] =
                     SearchStep(graph, [calls[q] EXCEPT !.visited =
                                           UNION { calls[p].visited : p \in Calls }])]
    /\ UNCHANGED << stops_df, routes_df, walking_df, loads, graph, build_error, rebuilt, multi >>

\* One iteration of the while loop of call q.
Search(q) ==
    /\ calls[q].pc = "search"
    /\ calls' = [calls EXCEPT ![q] = SearchStep(graph, calls[q])]
    /\ UNCHANGED << stops_df, routes_df, walking_df, loads, graph, build_error, rebuilt, multi >>

\* The code after the loop: the no-path test and the reconstruction.
Finish(q) ==
    /\ calls[q].pc = "finish"
    /\ calls' = [calls EXCEPT ![q] = FinishCall(calls[q])]
    /\ UNCHANGED << stops_df, routes_df, walking_df, loads, graph, build_error, rebuilt, multi >>

\* The call has returned or raised; its locals are gone.
Return(q) ==
    /\ multi.pc = "idle"
    /\ calls[q].pc = "done"
    /\ calls' = [calls EXCEPT ![q] = IdleCall]
    /\ UNCHANGED << stops_df, routes_df, walking_df, loads, graph, build_error, rebuilt, multi >>

CallStep(q) ==
    \/ \E origin \in QueryIds, destination \in QueryIds, optimize \in Criteria :
           FindRoutes(q, origin, destination, optimize)
    \/ Search(q)
    \/ Finish(q)
    \/ Return(q)

\* find_multiple_routes(origin, destination) is entered.
FindMultipleRoutes(origin, destination) ==
    /\ AllIdle
    /\ multi' = [pc |-> "loop", origin |-> origin, destination |-> destination, index |-> 1,
                 routes |-> EmptyRoutes, outcome |-> "pending"]
    /\ UNCHANGED << stops_df, routes_df, walking_df, loads, graph, build_error, rebuilt, calls >>

\* journeys = self.find_routes(origin, destination, optimize): the call is entered;
\* Search and Finish run it.
MultiFindRoutes ==
    /\ multi.pc = "loop"
    /\ calls[NestedCall].pc = "idle"
    /\ calls' = [calls EXCEPT ![NestedCall] =
                     StartCall(graph, multi.origin, multi.destination, MultiCriteria[multi.index])]
    /\ multi' = [multi EXCEPT !.pc = "wait"]
    /\ UNCHANGED << stops_df, routes_df, walking_df, loads, graph, build_error, rebuilt >>

\* What find_multiple_routes does with an ended find_routes call: a KeyError
\* passes through it; a non-empty list gives routes[optimize] = journeys[0]; after
\* the last criterion the mapping is returned.
MultiCollected(m, c) ==
    IF c.outcome = "KeyError" THEN [m EXCEPT !.pc = "done", !.outcome = "KeyError"]
    ELSE LET optimize == MultiCriteria[m.index]
             routes   == IF c.journeys # <<>>
                         THEN [k \in (DOMAIN m.routes) \cup {optimize} |->
                                  IF k = optimize THEN c.journeys[1] ELSE m.routes[k]]
                         ELSE m.routes
         IN  IF m.index = Len(MultiCriteria)
             THEN [m EXCEPT !.pc = "done", !.outcome = "returned", !.routes = routes]
             ELSE [m EXCEPT !.pc = "loop", !.index = @ + 1, !.routes = routes]

\* The find_routes call of find_multiple_routes has returned or raised.
MultiCollect ==
    /\ multi.pc = "wait"
    /\ calls[NestedCall].pc = "done"
    /\ multi' = MultiCollected(multi, calls[NestedCall])
    /\ calls' = [calls EXCEPT ![NestedCall] = IdleCall]
    /\ UNCHANGED << stops_df, routes_df, walking_df, loads, graph, build_error, rebuilt >>

\* find_multiple_routes has returned or raised; its locals are gone.
MultiReturn ==
    /\ multi.pc = "done"
    /\ multi' = IdleMulti
    /\ UNCHANGED << stops_df, routes_df, walking_df, loads, graph, build_error, rebuilt, calls >>

MultiStep ==
    \/ \E origin \in QueryIds, destination \in QueryIds : FindMultipleRoutes(origin, destination)
    \/ MultiFindRoutes
    \/ MultiCollect
    \/ MultiReturn

\* The program as main.py drives it: one call at a time.
Next ==
    \/ \E sdf \in StopTables, rdf \in RouteTables, wdf \in WalkTables : LoadData(sdf, rdf, wdf)
    \/ BuildGraphAgain
    \/ CallStep("call1")
    \/ MultiStep

Spec == Init /\ [][Next]_vars

\* The same program, a find_routes call that has been entered being run on: the
\* interpreter executes the next iteration of its loop and the code after it.
SpecLive ==
    /\ Init /\ [][Next]_vars
    /\ WF_vars(Search("call1")) /\ WF_vars(Finish("call1"))

\* The route tables of the RouteFinder that concurrent queries run against: all
\* the routes, or all but one.
LoadedRouteTables == { rdf \in RouteTables : Len(rdf) >= Len(AllRoutes) - 1 }

\* A RouteFinder after one load_data: the first MaxStops stops, the first
\* MaxWalks walking links.
InitLoaded ==
    \E rdf \in LoadedRouteTables :
        LET sdf   == SubSeq(AllStops, 1, MaxStops)
            wdf   == SubSeq(AllWalks, 1, MaxWalks)
            built == BuildGraph(EmptyGraph, sdf, rdf, wdf)
        IN  /\ stops_df = sdf
            /\ routes_df = rdf
            /\ walking_df = wdf
            /\ loads = 1
            /\ graph = built.graph
            /\ build_error = built.error
            /\ rebuilt = FALSE
            /\ calls = [q \in Calls |-> IdleCall]
            /\ multi = IdleMulti

\* find_routes calls made from several threads on the loaded RouteFinder: their
\* loop iterations interleave in any order.
NextQueries == \E q \in Calls : CallStep(q)

SpecQueries == InitLoaded /\ [][NextQueries]_vars

\* ------------------------------------------------------------------ claims
\* A call that has ended on a graph left by a build that completed.
Ended(q) == calls[q].pc = "done" /\ loads > 0 /\ build_error = "none"

Known(id) == id \in DOMAIN graph

\* The connections of a graph, each with the key it is listed under.
Edges(g) == UNION { { [from_stop |-> k, conn |-> g[k][i]] : i \in 1..Len(g[k]) } : k \in DOMAIN g }

\* The stops a directed path of connections leads to from those of seen.
RECURSIVE ReachFrom(_, _)
ReachFrom(g, seen) ==
    LET next == seen \cup { e.conn.to : e \in { x \in Edges(g) : x.from_stop \in seen } }
    IN  IF next = seen THEN seen ELSE ReachFrom(g, next)

PathExists(g, a, b) == b \in ReachFrom(g, {a})

\* The total durations of the simple paths from u to d that avoid seen.
RECURSIVE PathTimes(_, _, _, _)
PathTimes(g, u, d, seen) ==
    IF u = d THEN {0}
    ELSE IF u \notin DOMAIN g THEN {}
    ELSE UNION { { g[u][i].time + t : t \in PathTimes(g, g[u][i].to, d, seen \cup {g[u][i].to}) } :
                 i \in { j \in 1..Len(g[u]) : g[u][j].to \notin seen } }

\* The distinct route ids of the non-walk segments of a journey.
NonWalkRouteIds(journey) ==
    { journey.segments[i].route_id :
        i \in { j \in 1..Len(journey.segments) : journey.segments[j].mode # "walk" } }

\* C1: find_routes with an origin or a destination that is no key of the built
\* graph fails before any search work: it returns neither a journey nor the
\* no-path list, and no stop has been settled when it ends.
C1_UnknownStopFailsBeforeSearch ==
    \A q \in Calls :
        (Ended(q) /\ (~Known(calls[q].origin) \/ ~Known(calls[q].destination)))
            => (calls[q].outcome # "returned" /\ calls[q].visited = {})

\* C2: for known stops A and B, find_routes returns the empty list exactly when
\* no directed path of connections leads from A to B, and a journey otherwise,
\* whatever the criterion.
C2_NoPathIffEmpty ==
    \A q \in Calls :
        (Ended(q) /\ Known(calls[q].origin) /\ Known(calls[q].destination))
            => /\ calls[q].outcome = "returned"
               /\ (calls[q].journeys = <<>>)
                      <=> ~PathExists(graph, calls[q].origin, calls[q].destination)

\* C3: the journey find_routes returns for criterion 'time' between known stops
\* has a total_time no larger than the summed durations of any simple path from
\* the origin to the destination in the graph.
C3_TimeOptimal ==
    \A q \in Calls :
        (/\ calls[q].pc = "done" /\ loads > 0
         /\ calls[q].optimize = "time"
         /\ Known(calls[q].origin) /\ Known(calls[q].destination)
         /\ calls[q].journeys # <<>>)
            => \A t \in PathTimes(graph, calls[q].origin, calls[q].destination, {calls[q].origin}) :
                   calls[q].journeys[1].total_time <= t

\* C3 witness: a 'time' query has returned a journey of two segments or more while
\* a strictly slower path to the destination exists.
C3_Witness ==
    \E q \in Calls :
        /\ Ended(q) /\ calls[q].optimize = "time"
        /\ Known(calls[q].origin) /\ Known(calls[q].destination)
        /\ calls[q].journeys # <<>>
        /\ Len(calls[q].journeys[1].segments) >= 2
        /\ \E t \in PathTimes(graph, calls[q].origin, calls[q].destination, {calls[q].origin}) :
               t > calls[q].journeys[1].total_time

\* C4: find_routes(s, s, criterion) on a known stop s returns a journey with no
\* segment, total_cost 0, total_time 0 and transfers 0.
C4_SameStopZeroJourney ==
    \A q \in Calls :
        (Ended(q) /\ Known(calls[q].origin) /\ calls[q].origin = calls[q].destination)
            => /\ calls[q].outcome = "returned"
               /\ Len(calls[q].journeys) = 1
               /\ calls[q].journeys[1].segments = <<>>
               /\ calls[q].journeys[1].total_cost = 0
               /\ calls[q].journeys[1].total_time = 0
               /\ calls[q].journeys[1].transfers = 0

\* C5: every returned journey has transfers >= 0, equal to max(0, n - 1) for n the
\* number of distinct route ids among its non-walk segments.
C5_TransfersClamped ==
    \A q \in Calls :
        (Ended(q) /\ calls[q].journeys # <<>>)
            => /\ calls[q].journeys[1].transfers >= 0
               /\ calls[q].journeys[1].transfers
                      = Max(0, Cardinality(NonWalkRouteIds(calls[q].journeys[1])) - 1)

\* The scenario of C6: a fresh RouteFinder loaded with stops A, B, C, the route
\* R1 = [A, B] of fare 10 and the walking link B <-> C, and find_routes(A, C, 'time')
\* ended on it.
ScenarioEnded(q) ==
    /\ loads = 1
    /\ stops_df = SubSeq(AllStops, 1, 3)
    /\ routes_df = << AllRoutes[1] >>
    /\ walking_df = << AllWalks[1] >>
    /\ calls[q].pc = "done"
    /\ calls[q].origin = "A" /\ calls[q].destination = "C" /\ calls[q].optimize = "time"

\* The journey of the scenario, the hop A -> B costing hop_cost currency units.
ScenarioJourney(q, hop_cost) ==
    /\ calls[q].outcome = "returned"
    /\ Len(calls[q].journeys) = 1
    /\ LET journey == calls[q].journeys[1]
       IN  /\ Len(journey.segments) = 2
           /\ journey.segments[1].from_stop = "A" /\ journey.segments[1].to_stop = "B"
           /\ journey.segments[1].route_id = "R1"
           /\ journey.segments[1].duration >= 2
           /\ journey.segments[1].cost = hop_cost * CostScale
           /\ journey.segments[2].from_stop = "B" /\ journey.segments[2].to_stop = "C"
           /\ journey.segments[2].mode = "walk"
           /\ journey.segments[2].duration = 4
           /\ journey.segments[2].cost = 0
           /\ journey.total_cost = hop_cost * CostScale
           /\ journey.total_time >= 6
           /\ journey.transfers = 0

\* C6 as stated: in the scenario the journey is A -> B on R1 (duration >= 2, cost 10)
\* then the walk B -> C (duration 4, cost 0), total_cost 10, total_time >= 6,
\* transfers 0.
C6_ScenarioCostTen == \A q \in Calls : ScenarioEnded(q) => ScenarioJourney(q, 10)

\* C6 amended: the same journey, the hop A -> B costing 5 (the fare 10 divided by
\* the two stops of R1) and total_cost being 5.
C6_ScenarioCostFive == \A q \in Calls : ScenarioEnded(q) => ScenarioJourney(q, 5)

\* C6 witness: the scenario's query has ended with a two-segment journey.
C6_Witness ==
    \E q \in Calls : ScenarioEnded(q) /\ calls[q].journeys # <<>>
                     /\ Len(calls[q].journeys[1].segments) = 2

\* The stop ids a routes table or a walking table names.
ReferencedIds(rdf, wdf) ==
    UNION { { rdf[r].stops[i] : i \in 1..Len(rdf[r].stops) } : r \in 1..Len(rdf) }
    \cup { wdf[w].from_stop : w \in 1..Len(wdf) } \cup { wdf[w].to_stop : w \in 1..Len(wdf) }

\* C7: after _build_graph has completed, the graph has an adjacency entry for every
\* stop id of the stop set, and the entry of a stop no route and no walking link
\* names is the empty list.
C7_EntryForEveryStop ==
    (loads > 0 /\ build_error = "none")
        => \A s \in StopIdsOf(stops_df) :
               /\ s \in DOMAIN graph
               /\ s \notin ReferencedIds(routes_df, walking_df) => graph[s] = <<>>

\* C7 witness: a completed build left a stop that nothing references with an empty
\* entry beside a stop that has connections.
C7_Witness ==
    /\ loads > 0 /\ build_error = "none"
    /\ \E s \in StopIdsOf(stops_df) :
           s \notin ReferencedIds(routes_df, walking_df) /\ s \in DOMAIN graph /\ graph[s] = <<>>
    /\ \E s \in StopIdsOf(stops_df) : s \in DOMAIN graph /\ graph[s] # <<>>

\* C8: _build_graph completes without raising whatever stop ids the routes and
\* walking links name, and every connection of the graph it leaves has its 'to'
\* stop in the stop set.
C8_UnknownReferencesSkipped ==
    loads > 0
        => /\ build_error = "none"
           /\ \A e \in Edges(graph) :
                  e.from_stop \in StopIdsOf(stops_df) => e.conn.to \in StopIdsOf(stops_df)

\* C9: every 'route' connection of the graph has time >= 2 and every 'walk'
\* connection has cost 0.
C9_RouteTimeWalkCost ==
    \A e \in Edges(graph) :
        /\ e.conn.type = "route" => e.conn.time >= 2
        /\ e.conn.type = "walk" => e.conn.cost = 0

\* C9 witness: the graph holds a route connection between stops less than two
\* minutes apart, a route connection to a stop without coordinates, and a walk
\* connection.
C9_Witness ==
    /\ \E e \in Edges(graph) :
           /\ e.conn.type = "route" /\ e.conn.time = 2
           /\ e.from_stop \in StopIdsOf(stops_df) /\ e.conn.to \in StopIdsOf(stops_df)
    /\ \E e \in Edges(graph) :
           e.conn.type = "route" /\ e.conn.to \notin StopIdsOf(stops_df) /\ e.conn.time = 10
    /\ \E e \in Edges(graph) : e.conn.type = "walk"

\* C10: _build_graph run again on the same RouteFinder over the same records leaves
\* the adjacency as the run before left it: same keys, same connections in the
\* same order, none duplicated.
C10_RebuildIdentical ==
    [][BuildGraphAgain => (graph' = graph /\ build_error' = build_error)]_vars

\* A find_multiple_routes call that has ended on a graph left by a build that
\* completed, its origin and destination being keys of the graph.
MultiEnded ==
    /\ multi.pc = "done" /\ loads > 0 /\ build_error = "none"
    /\ Known(multi.origin) /\ Known(multi.destination)

\* What find_routes returns for criterion k when run alone on the graph.
Alone(origin, destination, k) == RunCall(graph, StartCall(graph, origin, destination, k))

\* C11: on a built graph and known stops find_multiple_routes returns a mapping
\* whose keys are among time, cost and transfers, each entry the journey that
\* find_routes returns for that criterion alone; the mapping has all three keys
\* when a path exists and none when no path exists.
C11_MultipleRoutesAllOrNone ==
    MultiEnded =>
        /\ multi.outcome = "returned"
        /\ DOMAIN multi.routes \subseteq { "time", "cost", "transfers" }
        /\ \A k \in DOMAIN multi.routes :
               Alone(multi.origin, multi.destination, k).journeys = << multi.routes[k] >>
        /\ PathExists(graph, multi.origin, multi.destination)
               => DOMAIN multi.routes = { "time", "cost", "transfers" }
        /\ ~PathExists(graph, multi.origin, multi.destination)
               => DOMAIN multi.routes = {}

\* The result a call in progress is heading to equals the result of its query
\* run alone on the graph.
SameAsAlone(q) ==
    LET c     == calls[q]
        alone == Alone(c.origin, c.destination, c.optimize)
        ends  == RunCall(graph, c)
    IN  ends.outcome = alone.outcome /\ ends.journeys = alone.journeys

\* C12: find_routes never modifies the built graph and keeps its queue, distance
\* map, predecessor map and settled set to itself: however the iterations of two
\* queries interleave, the graph stays the one the build left and each query, at
\* every point and when it ends, has the result it has when run alone.
C12_QueriesIndependent ==
    /\ graph = BuildGraph(EmptyGraph, stops_df, routes_df, walking_df).graph
    /\ \A q \in Calls : calls[q].pc # "idle" => SameAsAlone(q)

\* C12 witness: one query has returned a journey of two segments or more while a
\* different query, part-way through its search, has settled stops of its own.
C12_Witness ==
    /\ calls["call1"].pc = "done" /\ calls["call1"].journeys # <<>>
    /\ Len(calls["call1"].journeys[1].segments) >= 2
    /\ calls["call2"].pc = "search" /\ Cardinality(calls["call2"].visited) >= 2
    /\ calls["call2"].origin # calls["call1"].origin

\* C13: when a RouteFinder whose graph was built from one dataset reads a
\* changed dataset and builds again, the graph is exactly the one of the new
\* data: its keys are the new stop ids and its connections those of the new
\* routes and walking links, nothing of the earlier dataset remaining.
C13_RebuildReflectsNewData ==
    [][(/\ loads >= 1 /\ build_error = "none"
        /\ loads' = loads + 1 /\ build_error' = "none"
        /\ << stops_df', routes_df', walking_df' >> # << stops_df, routes_df, walking_df >>)
       => (/\ DOMAIN graph' = StopIdsOf(stops_df')
           /\ graph' = BuildGraph(EmptyGraph, stops_df', routes_df', walking_df').graph)]_vars

\* The segment is a connection of the graph: listed under its from_stop, leading
\* to its to_stop, with the same mode, route id, cost and duration.
SegmentIsEdge(seg) ==
    \E e \in Edges(graph) :
        /\ e.from_stop = seg.from_stop /\ e.conn.to = seg.to_stop
        /\ e.conn.mode = seg.mode /\ e.conn.route_id = seg.route_id
        /\ e.conn.cost = seg.cost /\ e.conn.time = seg.duration

\* C14: every journey find_routes returns is a complete connected chain: with
\* segments, the first starts at the origin, the last ends at the destination,
\* each segment ends where the next starts and each is a connection of the graph;
\* total_cost and total_time are the sums of the segments' cost and duration.
C14_JourneyIsConnectedChain ==
    \A q \in Calls :
        (calls[q].pc = "done" /\ calls[q].journeys # <<>>) =>
            LET journey == calls[q].journeys[1]
                segs    == journey.segments
                n       == Len(segs)
            IN  /\ n > 0 => (segs[1].from_stop = calls[q].origin
                             /\ segs[n].to_stop = calls[q].destination)
                /\ \A i \in 1..(n - 1) : segs[i].to_stop = segs[i + 1].from_stop
                /\ \A i \in 1..n : SegmentIsEdge(segs[i])
                /\ journey.total_cost = SumFrom([i \in 1..n |-> segs[i].cost], 1)
                /\ journey.total_time = SumFrom([i \in 1..n |-> segs[i].duration], 1)

\* C14 witness: a query by 'cost' has returned a journey of two segments or more
\* whose segments differ in mode.
C14_Witness ==
    \E q \in Calls :
        /\ calls[q].pc = "done" /\ calls[q].optimize = "cost" /\ calls[q].journeys # <<>>
        /\ Len(calls[q].journeys[1].segments) >= 2
        /\ calls[q].journeys[1].segments[1].mode # calls[q].journeys[1].segments[2].mode

\* The weight the criterion gives a connection that follows an edge of mode
\* prev_mode on a path ("" at the origin), in fixed-point units.
CriterionWeight(optimize, prev_mode, conn) ==
    CASE optimize = "time"     -> conn.time * CostScale
      [] optimize = "cost"     -> conn.cost
      [] optimize = "balanced" -> conn.time * CostScale + 2 * conn.cost
      [] optimize = "transfers" ->
            (conn.time + (IF prev_mode # "" /\ prev_mode # conn.mode THEN 30 ELSE 0)) * CostScale

\* The criterion costs of the simple paths from u to d that avoid seen, u being
\* entered by an edge of mode prev_mode.
RECURSIVE PathCosts(_, _, _, _, _, _)
PathCosts(g, optimize, u, d, seen, prev_mode) ==
    IF u = d THEN {0}
    ELSE IF u \notin DOMAIN g THEN {}
    ELSE UNION { { CriterionWeight(optimize, prev_mode, g[u][i]) + t :
                     t \in PathCosts(g, optimize, g[u][i].to, d,
                                     seen \cup {g[u][i].to}, g[u][i].mode) } :
                 i \in { j \in 1..Len(g[u]) : g[u][j].to \notin seen } }

MinOf(S) == CHOOSE x \in S : \A y \in S : x <= y

\* The accumulated cost of every settled stop of call q is the least criterion
\* cost of a path from the origin to it.
SettledAtMinimum(q) ==
    \A s \in calls[q].visited :
        LET costs == PathCosts(graph, calls[q].optimize, calls[q].origin, s,
                               {calls[q].origin}, "")
        IN  costs # {} /\ calls[q].distances[s] = MinOf(costs)

\* C15: at the moment a stop is settled, and from then on, its accumulated cost
\* is the minimum over the paths from the origin of the criterion's path cost,
\* for each of time, cost, balanced and transfers.
C15_SettledAtMinimumAll ==
    \A q \in Calls : calls[q].pc # "idle" => SettledAtMinimum(q)

\* The same for the criteria whose edge weight does not depend on the path:
\* time, cost and balanced.
SettledAtMinimumAdditive ==
    \A q \in Calls :
        (calls[q].pc # "idle" /\ calls[q].optimize # "transfers") => SettledAtMinimum(q)

\* The search maps of a call.
Labels(c) == << c.distances, c.previous, c.connections >>

\* What a step may do to call q while it is in find_routes.
SettledStaysSettled(q) ==
    LET c   == calls[q]
        new == calls'[q]
    IN  (c.pc \in { "search", "finish" }) =>
            \* no settled stop is unsettled, none has its labels changed
            /\ c.visited \subseteq new.visited
            /\ \A s \in c.visited \cap DOMAIN c.distances :
                   /\ new.distances[s] = c.distances[s]
                   /\ s \in DOMAIN c.previous =>
                          (new.previous[s] = c.previous[s] /\ new.connections[s] = c.connections[s])
            \* a step settles one stop at most, the one it pops
            /\ new.visited # c.visited =>
                   (c.pc = "search" /\ c.pq # <<>> /\ new.visited = c.visited \cup {c.pq[1][2]})
            \* a stale entry is dropped and nothing else happens
            /\ (c.pc = "search" /\ new # c /\ c.pq[1][2] \in c.visited) =>
                   (new.visited = c.visited /\ Labels(new) = Labels(c) /\ new.pq = Tail(c.pq))
            \* settling the destination relaxes nothing and ends the search
            /\ (c.destination \in new.visited \ c.visited) =>
                   (new.pc = "finish" /\ Labels(new) = Labels(c))
            \* after the search nothing is settled or relaxed
            /\ c.pc = "finish" => (new.visited = c.visited /\ Labels(new) = Labels(c))
            /\ c.destination \in c.visited => c.pc = "finish"

\* C16: once a stop is settled its accumulated cost, predecessor and incoming edge
\* never change for the rest of the search; a stale queue entry of a settled stop is
\* skipped without relaxing anything; each stop is settled at most once; once the
\* destination is settled no stop is settled and no edge relaxed any more.
C16_SettledNeverRevised == [][\A q \in Calls : SettledStaysSettled(q)]_vars

\* C16 witness: a search that has settled two stops or more has a stale entry of a
\* settled stop at the head of its queue, and the destination is not settled yet.
C16_Witness ==
    \E q \in Calls :
        /\ calls[q].pc = "search" /\ Cardinality(calls[q].visited) >= 2
        /\ calls[q].pq # <<>> /\ calls[q].pq[1][2] \in calls[q].visited
        /\ Len(calls[q].pq) >= 2

\* Call q is in find_routes on a graph left by a build that completed, its origin
\* and destination being keys of the graph.
Running(q) ==
    /\ calls[q].pc \in { "search", "finish" } /\ loads > 0 /\ build_error = "none"
    /\ Known(calls[q].origin) /\ Known(calls[q].destination)

\* Every find_routes call that is entered comes to its end.
CallsEnd == \A q \in Calls : (calls[q].pc \in { "search", "finish" }) ~> (calls[q].pc = "done")

\* C17: on a built graph, for known origin and destination and any criterion,
\* find_routes eventually ends, and it ends having returned: a journey or the
\* no-path list.
C17_TerminatesWithResult ==
    \A q \in Calls :
        Running(q) ~> (calls[q].pc = "done" /\ calls[q].outcome = "returned")

\* The distance in meters recorded on the walk connections a journey of call q
\* traversed: the connection of a segment is the one recorded for its to_stop.
RecordedWalkMeters(q) ==
    LET walks == SelectSeq(calls[q].journeys[1].segments, LAMBDA seg : seg.mode = "walk")
    IN  SumFrom([i \in 1..Len(walks) |->
                    calls[q].connections[walks[i].to_stop][1].distance], 1)

\* C18: the walking_distance of every returned journey is the sum over its walk
\* segments of the distance in meters recorded on the walk connection traversed,
\* and 0 for a journey without a walk segment.
C18_WalkingDistanceIsRecorded ==
    \A q \in Calls :
        (calls[q].pc = "done" /\ calls[q].journeys # <<>>)
            => calls[q].journeys[1].walking_distance = RecordedWalkMeters(q)

\* The adjacent segment pairs of a journey whose modes differ.
ModeChanges(segs) == { i \in 1..(Len(segs) - 1) : segs[i].mode # segs[i + 1].mode }

\* The criterion cost recomputed from a journey, in fixed-point units.
RecomputedCost(optimize, journey) ==
    CASE optimize = "time"     -> journey.total_time * CostScale
      [] optimize = "cost"     -> journey.total_cost
      [] optimize = "balanced" -> journey.total_time * CostScale + 2 * journey.total_cost
      [] optimize = "transfers" ->
            (journey.total_time + 30 * Cardinality(ModeChanges(journey.segments))) * CostScale

====
